---- MODULE Spec2Model ----
(***************************************************************************)
(* IMDBBertDataset (src/Week2/BERT/dataset.py): the construction of the    *)
(* BERT pre-training dataset.  Strings are sequences of one-character      *)
(* strings; a raised exception ends the call with pc = "raised" and its    *)
(* type and line in err.                                                   *)
(***************************************************************************)
EXTENDS Integers, Sequences, FiniteSets, TLC

VARIABLES
    raw,                      \* pd.read_csv(path)['review']
    ds_from, ds_to,           \* arguments of __init__
    should_include_text,      \* argument of __init__
    ds,                       \* self.ds
    columns,                  \* self.columns
    counter,                  \* self.counter: <<token, count>> in insertion order
    vocab,                    \* self.vocab: [created, itos, default_index]
    optimal_sentence_length,  \* self.optimal_sentence_length
    df,                       \* self.df: [built, rows]
    sentences,                \* local of prepare_dataset / argument of the sampler
    sentence_lens,            \* local of prepare_dataset
    nsp,                      \* local of prepare_dataset
    i,                        \* position of the running for loop
    pc,                       \* position in the code
    err,                      \* the exception raised: [type, line]
    args,                     \* arguments of a method called on its own
    ret,                      \* what that call returned, or None
    run,                      \* which of two calls with equal arguments is running
    draws                     \* values taken from the random module, per call

vars == <<raw, ds_from, ds_to, should_include_text, ds, columns, counter, vocab,
          optimal_sentence_length, df, sentences, sentence_lens, nsp, i, pc,
          err, args, ret, run, draws>>

\* None, for a field that otherwise holds an integer.
NoneInt == -1

\* err when nothing was raised.
NoErr == [type |-> "None", line |-> 0]

\* An exception of type t raised by the statement at line l of dataset.py.
Raised(t, l) == [type |-> t, line |-> l]

\* ---------------------------------------------------------------- bounds

\* Most documents of a corpus.
MaxDocs == 2

\* ------------------------------------------------------------- constants

CLS == <<"[", "C", "L", "S", "]">>
PAD == <<"[", "P", "A", "D", "]">>
SEP == <<"[", "S", "E", "P", "]">>
MASK == <<"[", "M", "A", "S", "K", "]">>
UNK == <<"[", "U", "N", "K", "]">>

MASKED_INDICES_COLUMN == "masked_indices"
TARGET_COLUMN == "indices"
NSP_TARGET_COLUMN == "is_next"
TOKEN_MASK_COLUMN == "token_mask"

OPTIMAL_LENGTH_PERCENTILE == 70

\* min_freq of the vocab(...) call.
MIN_FREQ == 2

\* ---------------------------------------------------------------- inputs

\* The documents a corpus is drawn from:
\*   "a"   "a. a"   "A a. b. a"   " "   "[CLS] a. [CLS]"   "a.a"   ". "
DocPool ==
    { <<"a">>,
      <<"a", ".", " ", "a">>,
      <<"A", " ", "a", ".", " ", "b", ".", " ", "a">>,
      <<" ">>,
      CLS \o <<" ", "a", ".", " ">> \o CLS,
      <<"a", ".", "a">>,
      <<".", " ">> }

RECURSIVE SeqsUpTo(_, _)
\* The sequences over S of length at most n.
SeqsUpTo(S, n) ==
    IF n = 0 THEN {<<>>}
    ELSE LET shorter == SeqsUpTo(S, n - 1)
         IN  shorter \cup {Append(s, x) : s \in {t \in shorter : Len(t) = n - 1}, x \in S}

Corpora == SeqsUpTo(DocPool, MaxDocs)

\* --------------------------------------------------------------- strings

IsSpace(c) == c = " "

RECURSIVE FindSep(_, _)
\* str.find('. ', from): the first position p >= from with s[p] = "." and
\* s[p+1] = " ", or 0.
FindSep(s, from) ==
    IF from + 1 > Len(s) THEN 0
    ELSE IF s[from] = "." /\ s[from + 1] = " " THEN from
    ELSE FindSep(s, from + 1)

RECURSIVE Split(_)
\* review.split('. ')
Split(s) ==
    LET p == FindSep(s, 1)
    IN  IF p = 0 THEN <<s>>
        ELSE <<SubSeq(s, 1, p - 1)>> \o Split(SubSeq(s, p + 2, Len(s)))

RECURSIVE Words(_)
\* str.split(): the maximal runs of non-whitespace characters.
Words(s) ==
    IF s = <<>> THEN <<>>
    ELSE IF IsSpace(s[1]) THEN Words(Tail(s))
    ELSE LET rest == Words(Tail(s))
         IN  IF Len(s) >= 2 /\ ~IsSpace(s[2])
             THEN <<(<<s[1]>> \o rest[1])>> \o Tail(rest)
             ELSE <<(<<s[1]>>)>> \o rest

\* str.lower() on one character.
Lower(c) ==
    CASE c = "A" -> "a"
      [] c = "C" -> "c"
      [] c = "D" -> "d"
      [] c = "E" -> "e"
      [] c = "K" -> "k"
      [] c = "L" -> "l"
      [] c = "M" -> "m"
      [] c = "N" -> "n"
      [] c = "P" -> "p"
      [] c = "S" -> "s"
      [] c = "U" -> "u"
      [] OTHER -> c

RECURSIVE Normalize(_)
\* basic_english: lower-case the line and put spaces around each '.'.
Normalize(s) ==
    IF s = <<>> THEN <<>>
    ELSE IF s[1] = "." THEN <<" ", ".", " ">> \o Normalize(Tail(s))
    ELSE <<Lower(s[1])>> \o Normalize(Tail(s))

\* self.tokenizer(sentence), get_tokenizer('basic_english')
tokenizer(s) == Words(Normalize(s))

\* ------------------------------------------------- the length estimator

RECURSIVE WordCounts(_)
\* [len(sentence.split()) for sentence in sentences]
WordCounts(ss) ==
    IF ss = <<>> THEN <<>> ELSE <<Len(Words(ss[1]))>> \o WordCounts(Tail(ss))

\* _update_length(sentences, lengths): its return value.
_update_length(ss, lengths) == lengths \o WordCounts(ss)

\* What `lengths` is after the statement self._update_length(review_sentences,
\* sentence_lens): the method builds a new list and the statement drops it.
UpdateLengthStatement(ss, lengths) ==
    LET returned == _update_length(ss, lengths)
    IN  lengths

RECURSIVE Insert(_, _)
Insert(x, s) ==
    IF s = <<>> THEN <<x>>
    ELSE IF x <= s[1] THEN <<x>> \o s
    ELSE <<s[1]>> \o Insert(x, Tail(s))

RECURSIVE Sorted(_)
Sorted(s) == IF s = <<>> THEN <<>> ELSE Insert(s[1], Sorted(Tail(s)))

\* int(np.percentile(arr, q)) for a non-empty arr: linear interpolation between
\* the two order statistics around (n - 1) * q / 100, truncated.
Percentile(lengths, q) ==
    LET s    == Sorted(lengths)
        pos  == q * (Len(s) - 1)
        lo   == (pos \div 100) + 1
        frac == pos % 100
        hi   == IF lo < Len(s) THEN lo + 1 ELSE lo
    IN  (100 * s[lo] + frac * (s[hi] - s[lo])) \div 100

\* np.percentile of an empty array gives nan (int(nan) raises ValueError) or
\* raises IndexError, by numpy version: no value is returned either way.
PercentileErrors == {"ValueError", "IndexError"}

\* _find_optimal_sentence_length(lengths), for lengths it returns on.
_find_optimal_sentence_length(lengths) == Percentile(lengths, OPTIMAL_LENGTH_PERCENTILE)

\* ------------------------------------------------------------ __init__

SliceBounds == {NoneInt} \cup (0 .. MaxDocs)

Min(a, b) == IF a <= b THEN a ELSE b

\* self.ds[ds_from:ds_to] on the column as read.
Slice(s, from, to) ==
    LET lo == IF from = NoneInt THEN 0 ELSE Min(from, Len(s))
        hi == IF to = NoneInt THEN Len(s) ELSE Min(to, Len(s))
    IN  IF hi <= lo THEN <<>> ELSE SubSeq(s, lo + 1, hi)

\* self.columns
Columns(include_text) ==
    IF include_text
    THEN <<"masked_sentence", MASKED_INDICES_COLUMN, "sentence", TARGET_COLUMN,
           TOKEN_MASK_COLUMN, NSP_TARGET_COLUMN>>
    ELSE <<MASKED_INDICES_COLUMN, TARGET_COLUMN, TOKEN_MASK_COLUMN,
           NSP_TARGET_COLUMN>>

\* self.vocab = None
NoVocab == [created |-> FALSE, itos |-> <<>>, default_index |-> NoneInt]

\* self.df before prepare_dataset has returned.
NoDf == [built |-> FALSE, rows |-> <<>>]

NoArgs == [first |-> <<>>, second |-> <<>>, label |-> NoneInt]

NoRet == [kind |-> "none", a |-> NoneInt, b |-> NoneInt]

\* No method is being called on its own.
NoCall == args = NoArgs /\ ret = NoRet /\ run = 1 /\ draws = <<<<>>, <<>>>>

Init ==
    /\ raw \in Corpora
    /\ ds_from \in SliceBounds
    /\ ds_to \in SliceBounds
    /\ should_include_text \in BOOLEAN
    /\ ds = <<>> /\ columns = <<>> /\ counter = <<>> /\ vocab = NoVocab
    /\ optimal_sentence_length = NoneInt /\ df = NoDf
    /\ sentences = <<>> /\ sentence_lens = <<>> /\ nsp = <<>> /\ i = 1
    /\ pc = "init" /\ err = NoErr
    /\ NoCall

\* __init__ up to the call of prepare_dataset, and the first lines of it.
Construct ==
    /\ pc = "init"
    /\ ds' = IF ds_from # NoneInt \/ ds_to # NoneInt
             THEN Slice(raw, ds_from, ds_to) ELSE raw
    /\ counter' = <<>>
    /\ vocab' = NoVocab
    /\ optimal_sentence_length' = NoneInt
    /\ columns' = Columns(should_include_text)
    /\ sentences' = <<>> /\ nsp' = <<>> /\ sentence_lens' = <<>> /\ i' = 1
    /\ pc' = "split"
    /\ UNCHANGED <<raw, ds_from, ds_to, should_include_text, df, err, args, ret,
                   run, draws>>

\* ------------------------------------------- prepare_dataset, first pass

\* HasNext with the last review left out.
HasNextButLast(k) == k < Len(ds)

\* Whether `for review in self.ds` has a review left at position k.
HasNext(k) == k <= Len(ds)

\* One turn of `for review in self.ds` of the first pass.
SplitReview ==
    /\ pc = "split"
    /\ HasNext(i)
    /\ LET review_sentences == Split(ds[i])
       IN  /\ sentences' = sentences \o review_sentences
           /\ sentence_lens' = UpdateLengthStatement(review_sentences, sentence_lens)
    /\ i' = i + 1
    /\ UNCHANGED <<raw, ds_from, ds_to, should_include_text, ds, columns, counter,
                   vocab, optimal_sentence_length, df, nsp, pc, err, args, ret,
                   run, draws>>

\* self.optimal_sentence_length = self._find_optimal_sentence_length(sentence_lens)
FindOptimalSentenceLength ==
    /\ pc = "split"
    /\ ~HasNext(i)
    /\ IF sentence_lens = <<>>
       THEN /\ \E e \in PercentileErrors : err' = Raised(e, 81)
            /\ pc' = "raised"
            /\ UNCHANGED optimal_sentence_length
       ELSE /\ optimal_sentence_length' = _find_optimal_sentence_length(sentence_lens)
            /\ pc' = "count"
            /\ UNCHANGED err
    /\ i' = 1
    /\ UNCHANGED <<raw, ds_from, ds_to, should_include_text, ds, columns, counter,
                   vocab, df, sentences, sentence_lens, nsp, args, ret, run, draws>>

\* ------------------------------------------------ the vocabulary builder

\* Counter.update([token]) on a counter kept in insertion order.
CountOne(c, tok) ==
    IF \E k \in 1 .. Len(c) : c[k][1] = tok
    THEN [k \in 1 .. Len(c) |-> IF c[k][1] = tok THEN <<tok, c[k][2] + 1>> ELSE c[k]]
    ELSE Append(c, <<tok, 1>>)

RECURSIVE CounterUpdate(_, _)
\* self.counter.update(sen_tokens)
CounterUpdate(c, tokens) ==
    IF tokens = <<>> THEN c
    ELSE CounterUpdate(CountOne(c, tokens[1]), Tail(tokens))

RECURSIVE KeptTokens(_, _)
\* The tokens of the counter with freq >= min_freq, in the counter's order.
KeptTokens(c, min_freq) ==
    IF c = <<>> THEN <<>>
    ELSE (IF c[1][2] >= min_freq THEN <<c[1][1]>> ELSE <<>>)
         \o KeptTokens(Tail(c), min_freq)

\* torchtext.vocab.vocab(ordered_dict, min_freq)
VocabOf(c, min_freq) ==
    [created |-> TRUE, itos |-> KeptTokens(c, min_freq), default_index |-> NoneInt]

InVocab(v, tok) == \E k \in 1 .. Len(v.itos) : v.itos[k] = tok

\* Vocab.insert_token(token, index) raises RuntimeError unless this holds.
CanInsert(v, tok, index) == index <= Len(v.itos) /\ ~InVocab(v, tok)

\* Vocab.insert_token(token, index): the tokens from index on move up by one.
InsertToken(v, tok, index) ==
    [v EXCEPT !.itos = SubSeq(v.itos, 1, index) \o <<tok>>
                       \o SubSeq(v.itos, index + 1, Len(v.itos))]

\* Vocab.__getitem__(token): its index, or the default index (NoneInt where
\* none is set and the lookup raises).
VocabIndex(v, tok) ==
    IF InVocab(v, tok)
    THEN (CHOOSE k \in 1 .. Len(v.itos) : v.itos[k] = tok) - 1
    ELSE v.default_index

\* The insert_token calls of _fill_vocab, in order.
SpecialTokens == <<<<CLS, 0>>, <<PAD, 1>>, <<MASK, 2>>, <<SEP, 3>>, <<UNK, 4>>>>

\* The index given to set_default_index.
DefaultIndex == 4

RECURSIVE InsertTokens(_, _, _)
\* The insert_token calls from the n-th on: the vocabulary they leave and the
\* line of the call that raised, or 0.
InsertTokens(v, n, line) ==
    IF n > Len(SpecialTokens) THEN [vocab |-> v, raised_at |-> 0]
    ELSE IF ~CanInsert(v, SpecialTokens[n][1], SpecialTokens[n][2])
         THEN [vocab |-> v, raised_at |-> line]
         ELSE InsertTokens(InsertToken(v, SpecialTokens[n][1], SpecialTokens[n][2]),
                           n + 1, line + 1)

\* _fill_vocab without its set_default_index call.
FillVocabNoDefault(c) == InsertTokens(VocabOf(c, MIN_FREQ), 1, 121)

\* _fill_vocab(): self.vocab as it leaves it, and the line that raised, or 0.
_fill_vocab(c) ==
    LET r == InsertTokens(VocabOf(c, MIN_FREQ), 1, 121)
    IN  IF r.raised_at # 0 THEN r
        ELSE [r EXCEPT !.vocab.default_index = DefaultIndex]

\* One turn of `for sentence in tqdm(sentences)`.
CountTokens ==
    /\ pc = "count"
    /\ i <= Len(sentences)
    /\ LET sen_tokens == tokenizer(sentences[i])
       IN  counter' = CounterUpdate(counter, sen_tokens)
    /\ i' = i + 1
    /\ UNCHANGED <<raw, ds_from, ds_to, should_include_text, ds, columns, vocab,
                   optimal_sentence_length, df, sentences, sentence_lens, nsp, pc,
                   err, args, ret, run, draws>>

\* self._fill_vocab()
FillVocab ==
    /\ pc = "count"
    /\ i > Len(sentences)
    /\ LET r == _fill_vocab(counter)
       IN  /\ vocab' = r.vocab
           /\ IF r.raised_at # 0
              THEN pc' = "raised" /\ err' = Raised("RuntimeError", r.raised_at)
              ELSE pc' = "pass2" /\ UNCHANGED err
    /\ i' = 1
    /\ UNCHANGED <<raw, ds_from, ds_to, should_include_text, ds, columns, counter,
                   optimal_sentence_length, df, sentences, sentence_lens, nsp,
                   args, ret, run, draws>>

RECURSIVE AllSentences(_)
\* `sentences` once every review of d has been split.
AllSentences(d) ==
    IF d = <<>> THEN <<>> ELSE Split(d[1]) \o AllSentences(Tail(d))

\* The vocabulary builder on the sentences of any corpus: prepare_dataset from
\* "Create vocabulary" to the return of _fill_vocab.
InitVocab ==
    /\ raw \in Corpora
    /\ ds_from = NoneInt /\ ds_to = NoneInt
    /\ should_include_text \in BOOLEAN
    /\ ds = raw /\ columns = Columns(should_include_text)
    /\ counter = <<>> /\ vocab = NoVocab
    /\ optimal_sentence_length = NoneInt /\ df = NoDf
    /\ sentences = AllSentences(raw) /\ sentence_lens = <<>> /\ nsp = <<>> /\ i = 1
    /\ pc = "count" /\ err = NoErr
    /\ NoCall

NextVocab == CountTokens \/ FillVocab

SpecVocab == InitVocab /\ [][NextVocab]_vars

\* ------------------------------------------------------ the pair sampler

\* Functions of the `random` module (import random).
RandomAttributes ==
    {"seed", "random", "randint", "randrange", "choice", "choices", "shuffle",
     "sample", "uniform", "getrandbits"}

\* The function the second draw of _select_false_nsp_sentences names.
SecondDraw == "randin"

\* _select_false_nsp_sentences(sentences), one call.  The module's generator
\* is never seeded by the program, so a draw is any value of its range.
\* random.randint(0, -1) raises ValueError; an attribute the module lacks
\* raises AttributeError once the first draw is made.  The loop redraws
\* next_sentence_idx while it equals sentence_idx + 1.
SelectFalseNspSentences ==
    /\ pc = "select"
    /\ LET sentence_len == Len(sentences)
       IN  IF sentence_len = 0
           THEN /\ err' = Raised("ValueError", 133)
                /\ pc' = "raised"
                /\ UNCHANGED <<ret, draws>>
           ELSE \E sentence_idx \in 0 .. sentence_len - 1 :
                  IF SecondDraw \notin RandomAttributes
                  THEN /\ err' = Raised("AttributeError", 133)
                       /\ pc' = "raised"
                       /\ draws' = [draws EXCEPT ![run] = Append(@, sentence_idx)]
                       /\ UNCHANGED ret
                  ELSE \E next_sentence_idx \in 0 .. sentence_len - 1 :
                         /\ next_sentence_idx # sentence_idx + 1
                         /\ ret' = [kind |-> "pair", a |-> sentence_idx,
                                    b |-> next_sentence_idx]
                         /\ pc' = "returned"
                         /\ draws' = [draws EXCEPT
                                        ![run] = @ \o <<sentence_idx, next_sentence_idx>>]
                         /\ UNCHANGED err
    /\ UNCHANGED <<raw, ds_from, ds_to, should_include_text, ds, columns, counter,
                   vocab, optimal_sentence_length, df, sentences, sentence_lens,
                   nsp, i, args, run>>

\* The same call made again, by a second build over the same corpus.
SecondCall ==
    /\ pc \in {"raised", "returned"}
    /\ run = 1
    /\ run' = 2
    /\ pc' = "select" /\ err' = NoErr /\ ret' = NoRet
    /\ UNCHANGED <<raw, ds_from, ds_to, should_include_text, ds, columns, counter,
                   vocab, optimal_sentence_length, df, sentences, sentence_lens,
                   nsp, i, args, draws>>

\* The sampler on the flattened sentences of any corpus.
InitSelect ==
    /\ raw \in Corpora
    /\ ds_from = NoneInt /\ ds_to = NoneInt
    /\ should_include_text \in BOOLEAN
    /\ ds = raw /\ columns = Columns(should_include_text)
    /\ counter = <<>> /\ vocab = NoVocab
    /\ optimal_sentence_length = NoneInt /\ df = NoDf
    /\ sentences = AllSentences(raw) /\ sentence_lens = <<>> /\ nsp = <<>> /\ i = 1
    /\ pc = "select" /\ err = NoErr
    /\ NoCall

NextSelect == SelectFalseNspSentences \/ SecondCall

SpecSelect == InitSelect /\ [][NextSelect]_vars

\* ---------------------------------------------------------- _create_item

\* The parameters of `def _create_item(self)` after self.
CreateItemParameters == <<>>

\* What _create_item returns.
_create_item == <<0, 0, 0>>

\* nsp.append(self._create_item(first, second, label)): a call whose
\* arguments do not fit the parameters raises TypeError and appends nothing.
AppendItem ==
    /\ pc = "create_item"
    /\ IF Len(<<args.first, args.second, args.label>>) = Len(CreateItemParameters)
       THEN /\ nsp' = Append(nsp, _create_item)
            /\ pc' = "returned"
            /\ UNCHANGED err
       ELSE /\ err' = Raised("TypeError", IF args.label = 1 THEN 97 ELSE 102)
            /\ pc' = "raised"
            /\ UNCHANGED nsp
    /\ UNCHANGED <<raw, ds_from, ds_to, should_include_text, ds, columns, counter,
                   vocab, optimal_sentence_length, df, sentences, sentence_lens,
                   i, args, ret, run, draws>>

\* The sentences of the documents of DocPool, tokenized.
TokenLists ==
    {tokenizer(Split(d)[k]) : <<d, k>> \in
        {<<d, k>> \in DocPool \X (1 .. 3) : k <= Len(Split(d))}}

\* One call of _create_item as prepare_dataset makes it, on any pair of
\* tokenized sentences and either label.
InitItem ==
    /\ raw = <<>>
    /\ ds_from = NoneInt /\ ds_to = NoneInt
    /\ should_include_text \in BOOLEAN
    /\ ds = raw /\ columns = Columns(should_include_text)
    /\ counter = <<>> /\ vocab = NoVocab
    /\ optimal_sentence_length = NoneInt /\ df = NoDf
    /\ sentences = <<>> /\ sentence_lens = <<>> /\ nsp = <<>> /\ i = 1
    /\ pc = "create_item" /\ err = NoErr
    /\ args \in [first : TokenLists, second : TokenLists, label : {0, 1}]
    /\ ret = NoRet /\ run = 1 /\ draws = <<<<>>, <<>>>>

NextItem == AppendItem

SpecItem == InitItem /\ [][NextItem]_vars

\* The construction of a dataset: __init__ and the prepare_dataset it calls.
Next == Construct \/ SplitReview \/ FindOptimalSentenceLength

Spec == Init /\ [][Next]_vars

\* ================================================================ claims

\* A call, or the build, is over: it returned or it raised.
Ended == pc \in {"raised", "returned", "done"}

RECURSIVE PairCount(_)
\* The adjacent sentence pairs of the documents of d: the sum of k_d - 1.
PairCount(d) ==
    IF d = <<>> THEN 0 ELSE (Len(Split(d[1])) - 1) + PairCount(Tail(d))

\* The NSP label of an example: its last field.
Label(item) == item[Len(item)]

Labels(items) == [k \in 1 .. Len(items) |-> Label(items[k])]

CountLabel(items, l) == Cardinality({k \in 1 .. Len(items) : Label(items[k]) = l})

RECURSIVE AllTokens(_)
\* The tokens of the sentences ss, in order.
AllTokens(ss) ==
    IF ss = <<>> THEN <<>> ELSE tokenizer(ss[1]) \o AllTokens(Tail(ss))

\* How often tok occurs in the token sequence toks.
Freq(toks, tok) == Cardinality({k \in 1 .. Len(toks) : toks[k] = tok})

\* The tokens looked up: every token of a sentence of DocPool, and one no
\* document holds.
TokenUniverse == UNION {{t[k] : k \in 1 .. Len(t)} : t \in TokenLists} \cup {<<"z">>}

\* C1: when prepare_dataset is over, the examples built from the corpus are
\* (k_d - 1) with label 1 and (k_d - 1) with label 0 for every document d of
\* k_d sentences: 2 * sum(k_d - 1) in all.
C1_PairsPerDocument ==
    Ended => /\ CountLabel(nsp, 1) = PairCount(ds)
             /\ CountLabel(nsp, 0) = PairCount(ds)
             /\ Len(nsp) = 2 * PairCount(ds)

\* C2: every call of _select_false_nsp_sentences returns a pair
\* (sentences[a], sentences[b]) with b # a + 1.
C2_NotNextSentence ==
    pc \in {"raised", "returned"} => ret.kind = "pair" /\ ret.b # ret.a + 1

\* C3: a call of _select_false_nsp_sentences on a corpus of at most one
\* sentence ends in an explicit DataError (as does one that used up its
\* retries).
C3_DataErrorOnSmallCorpus ==
    (pc \in {"raised", "returned"} /\ Len(sentences) <= 1) => err.type = "DataError"

\* C4: the list of lengths handed to _find_optimal_sentence_length holds one
\* word count for each segmented sentence of the corpus.
C4_LengthsHanded ==
    (pc = "split" /\ ~HasNext(i)) => sentence_lens = WordCounts(sentences)

\* C5: once _fill_vocab has run, CLS, PAD, MASK, SEP and UNK have the indices
\* 0, 1, 2, 3 and 4, every token of the corpus with frequency >= 2 has an
\* index >= 5, and every other token that is no special token looks up to 4.
C5_SpecialIndices ==
    pc # "count" =>
        /\ pc = "pass2"
        /\ VocabIndex(vocab, CLS) = 0
        /\ VocabIndex(vocab, PAD) = 1
        /\ VocabIndex(vocab, MASK) = 2
        /\ VocabIndex(vocab, SEP) = 3
        /\ VocabIndex(vocab, UNK) = 4
        /\ \A tok \in TokenUniverse :
              IF Freq(AllTokens(sentences), tok) >= MIN_FREQ
              THEN VocabIndex(vocab, tok) >= 5
              ELSE VocabIndex(vocab, tok) = 4

\* C5's case: the vocabulary is filled from a corpus with a token that is kept
\* and a token below the minimum frequency.
C5_Witness ==
    /\ pc = "pass2"
    /\ \E tok \in TokenUniverse : Freq(AllTokens(sentences), tok) >= MIN_FREQ
    /\ \E tok \in TokenUniverse : Freq(AllTokens(sentences), tok) = 1

\* C6: two calls of the sampler over the same sentences take the same values
\* from the random source.
C6_SameDraws ==
    (run = 2 /\ pc \in {"raised", "returned"}) => draws[1] = draws[2]

\* C7: a call nsp.append(self._create_item(first, second, label)) appends an
\* example with as many fields as self.columns, the last one the label.
C7_ItemFields ==
    pc \in {"raised", "returned"} =>
        /\ Len(nsp) = 1
        /\ Len(nsp[1]) = Len(columns)
        /\ Label(nsp[1]) = args.label

EstimationCalled == optimal_sentence_length # NoneInt \/ err.line = 81

====
